---- MODULE Spec2Model ----
(***************************************************************************)
(* Merkle proof verification of octopus-network/trie-go: package proof     *)
(* (Verify, BuildTrie, LoadProof) over the substrate node model.           *)
(*                                                                         *)
(* Byte strings are records tagged by their shape:                         *)
(*   [t |-> "nil"]                 a nil slice                             *)
(*   [t |-> "raw", b |-> <<..>>]   literal bytes                           *)
(*   [t |-> "digest", of |-> e]    the BLAKE2b-256 digest of byte string e *)
(*   [t |-> "node", ...]           the wire encoding of a trie node        *)
(* The digest constructor is injective: BLAKE2b-256 is taken to be         *)
(* collision free.                                                         *)
(***************************************************************************)
EXTENDS Integers, Sequences, FiniteSets, TLC

\* The arguments of the call under way (the proof, the expected root hash, the
\* searched key and the expected value), the function called and what it
\* returned.
VARIABLES proofNodes, expectedRoot, searchKey, searchValue, pc, ret

\* A call of LoadProof or of a method of Node under way: the digest index, the
\* node the call works on (changed in place) and, for LoadProof, the stack of
\* its recursive calls: for each the path of child slots from that node to
\* the branch the call loops over and the slot the loop is at.
VARIABLES digestIndex, tree, stack

\* Calls of BuildTrie under way at the same time: the free buffers of the
\* DigestBuffers pool, the contents of every buffer created (what was written
\* to it since its last reset), and for each call its arguments, its place
\* in the function, its local variables and what it returned.
VARIABLES pool, buffers, calls

vars == <<proofNodes, expectedRoot, searchKey, searchValue, pc, ret,
          digestIndex, tree, stack, pool, buffers, calls>>

----------------------------------------------------------------------------
(* Bounds of the model *)

MaxProofLen == 3

\* the depth of recursive calls of LoadProof the stack of the goroutine has
\* room for
MaxDepth == 4

----------------------------------------------------------------------------
(* Byte strings *)

NilBytes == [t |-> "nil"]

Raw(b) == [t |-> "raw", b |-> b]

\* string(b) / the contents of a slice: a nil slice and an empty slice have
\* the same contents.
Str(b) == IF b = NilBytes THEN Raw(<<>>) ELSE b

\* bytes.Equal
BytesEqual(a, b) == Str(a) = Str(b)

ChildrenCapacity == 16

HashLength == 32

\* ceil(n / 2): the bytes n nibbles are packed into
PackedLen(n) == (n + 1) \div 2

RECURSIVE Size(_)
RECURSIVE SumSizes(_, _)

\* the bytes the present child entries of a branch encoding take, each with
\* its one-byte SCALE length prefix
SumSizes(children, i) ==
    IF i > Len(children) THEN 0
    ELSE (IF children[i] = NilBytes THEN 0 ELSE 1 + Size(children[i]))
         + SumSizes(children, i + 1)

\* len(b)
Size(b) ==
    CASE b.t = "nil" -> 0
      [] b.t = "raw" -> Len(b.b)
      [] b.t = "digest" -> HashLength
      [] b.t = "node" ->
            1 + PackedLen(Len(b.pk))
            + (IF b.children = <<>> THEN 0 ELSE 2 + SumSizes(b.children, 1))
            + (IF b.sv = NilBytes THEN 0 ELSE 1 + Size(b.sv))

\* BLAKE2b-256 of an encoding
Blake2bHash(encoding) == [t |-> "digest", of |-> encoding]

\* MerkleValueRoot always hashes; the digest is what it writes to the buffer.
MerkleValueRoot(encoding) == [err |-> <<>>, digest |-> Blake2bHash(encoding)]

\* MerkleValue: the encoding itself when shorter than 32 bytes, else its hash
MerkleValue(encoding) ==
    IF Size(encoding) < HashLength THEN encoding ELSE Blake2bHash(encoding)

----------------------------------------------------------------------------
(* Errors: nil is the empty chain, a wrapped error the chain of what it wraps *)

NilErr == <<>>

ErrorIs(err, target) == \E i \in 1..Len(err) : err[i] = target

Wrap(context, err) == <<context>> \o err

----------------------------------------------------------------------------
(* Nodes *)

NilNode == [nil |-> TRUE]

Node(partialKey, storageValue, children, nodeValue, dirty, descendants) ==
    [PartialKey |-> partialKey, StorageValue |-> storageValue,
     Children |-> children, NodeValue |-> nodeValue,
     Dirty |-> dirty, Descendants |-> descendants]

Kind(n) == IF n.Children # <<>> THEN "Branch" ELSE "Leaf"

HasChild(n) == \E i \in 1..Len(n.Children) : n.Children[i] # NilNode

\* SetDirty without the reset of the cached Merkle value
SetDirtyKeepsNodeValue(n) == [n EXCEPT !.Dirty = TRUE]

\* Node.SetDirty
SetDirty(n) == [n EXCEPT !.Dirty = TRUE, !.NodeValue = NilBytes]

\* Node.SetClean
SetClean(n) == [n EXCEPT !.Dirty = FALSE]

\* StorageValueEqual comparing the contents only
StorageValueEqualContents(n, storageValue) ==
    BytesEqual(n.StorageValue, storageValue)

\* Node.StorageValueEqual: two empty values are equal when both are nil or
\* both are present
StorageValueEqual(n, storageValue) ==
    IF Size(storageValue) = 0 /\ Size(n.StorageValue) = 0
    THEN (storageValue = NilBytes) = (n.StorageValue = NilBytes)
    ELSE BytesEqual(n.StorageValue, storageValue)

----------------------------------------------------------------------------
(* Node codec *)

RECURSIVE Decode(_)
RECURSIVE DecodeChildren(_, _)

\* The children of a branch encoding, slots i.. in ascending order: an entry
\* shorter than a hash is an inlined child encoding and is decoded, any other
\* entry is kept as the Merkle value of a child that is not loaded.
DecodeChildren(children, i) ==
    IF i > Len(children)
    THEN [err |-> NilErr, Children |-> <<>>, Descendants |-> 0]
    ELSE LET c == children[i]
             rest == DecodeChildren(children, i + 1)
         IN  IF c = NilBytes
             THEN [rest EXCEPT !.Children = <<NilNode>> \o @]
             ELSE IF Size(c) < HashLength
             THEN LET inlined == Decode(c)
                  IN  IF inlined.err # NilErr
                      THEN [err |-> Wrap("ErrDecodeInlinedChild", inlined.err),
                            Children |-> <<>>, Descendants |-> 0]
                      ELSE [err |-> rest.err,
                            Children |-> <<inlined.n>> \o rest.Children,
                            Descendants |-> 1 + inlined.n.Descendants
                                            + rest.Descendants]
             ELSE [err |-> rest.err,
                   Children |-> <<Node(<<>>, NilBytes, <<>>, c, FALSE, 0)>>
                                \o rest.Children,
                   Descendants |-> 1 + rest.Descendants]

\* Decode: the node an encoding describes, or the decoding error.  Literal
\* bytes that are no node encoding fail on their header: no byte to read, or a
\* header byte whose variant bits are unknown.  The bytes of a digest are no
\* node encoding either.
Decode(encoding) ==
    CASE encoding.t = "node" ->
            LET kids == DecodeChildren(encoding.children, 1)
            IN  IF kids.err # NilErr
                THEN [err |-> kids.err, n |-> NilNode]
                ELSE [err |-> NilErr,
                      n |-> Node(encoding.pk, encoding.sv, kids.Children,
                                 NilBytes, FALSE, kids.Descendants)]
      [] encoding.t = "raw" /\ encoding.b = <<>> ->
            [err |-> <<"ErrReadHeaderByte", "EOF">>, n |-> NilNode]
      [] OTHER ->
            [err |-> <<"ErrVariantUnknown">>, n |-> NilNode]

\* The encoding of a leaf with partial key pk and storage value sv
LeafEncoding(pk, sv) ==
    [t |-> "node", variant |-> "leaf", pk |-> pk, sv |-> sv, children |-> <<>>]

\* The encoding of a branch with partial key pk, storage value sv (or none)
\* and the given child entries, padded to the 16 slots
BranchEncoding(pk, sv, entries) ==
    [t |-> "node",
     variant |-> IF sv = NilBytes THEN "branch" ELSE "branchWithValue",
     pk |-> pk, sv |-> sv,
     children |-> [i \in 1..ChildrenCapacity |->
                     IF i <= Len(entries) THEN entries[i] ELSE NilBytes]]

----------------------------------------------------------------------------
(* Trie *)

NilTrie == [nil |-> TRUE]

NewTrie(root) == [root |-> root]

RECURSIVE KeyLEToNibbles(_)
\* each key byte gives two nibbles, the high one first
KeyLEToNibbles(b) ==
    IF b = <<>> THEN <<>>
    ELSE <<Head(b) \div 16, Head(b) % 16>> \o KeyLEToNibbles(Tail(b))

IsPrefix(p, s) == Len(p) <= Len(s) /\ SubSeq(s, 1, Len(p)) = p

RECURSIVE Retrieve(_, _)
\* the lookup of the remaining nibbles in the subtree of a node
Retrieve(n, nibbles) ==
    IF n = NilNode THEN NilBytes
    ELSE IF ~IsPrefix(n.PartialKey, nibbles) THEN NilBytes
    ELSE IF Len(nibbles) = Len(n.PartialKey) THEN n.StorageValue
    ELSE IF Kind(n) = "Leaf" THEN NilBytes
    ELSE Retrieve(n.Children[nibbles[Len(n.PartialKey) + 1] + 1],
                  SubSeq(nibbles, Len(n.PartialKey) + 2, Len(nibbles)))

\* Trie.Get
Get(trie, keyLE) == Retrieve(trie.root, KeyLEToNibbles(Str(keyLE).b))

----------------------------------------------------------------------------
(* Proof reconstruction *)

EmptyMap == [d \in {} |-> NilBytes]

MapPut(m, k, v) == [d \in DOMAIN m \cup {k} |-> IF d = k THEN v ELSE m[d]]

\* the test LoadProof makes of a child whose Merkle value is not indexed
InlinedChild(child) == Size(child.StorageValue) > 0 \/ HasChild(child)

\* an inlined child is kept and marked dirty
KeepInlinedChild(branch, i) == [branch EXCEPT !.Children[i].Dirty = TRUE]

\* PruneChild leaving the descendant count of the branch as it was
PruneChildKeepsCount(branch, i) ==
    LET cleared == [branch EXCEPT !.Children[i] = NilNode]
    IN  IF ~HasChild(cleared) THEN [cleared EXCEPT !.Children = <<>>]
        ELSE cleared

\* a child neither indexed nor inlined is cleared from the branch, and the
\* children of the branch are cleared when none is left
PruneChild(branch, i) ==
    LET cleared == [branch EXCEPT
                      !.Descendants = @ - (1 + branch.Children[i].Descendants),
                      !.Children[i] = NilNode]
    IN  IF ~HasChild(cleared) THEN [cleared EXCEPT !.Children = <<>>]
        ELSE cleared

\* ReplaceChild leaving the descendant count of the branch as it was
ReplaceChildKeepsCount(branch, i, decoded) ==
    [branch EXCEPT !.Children[i] = [decoded EXCEPT !.Dirty = TRUE]]

\* the decoded child is marked dirty and takes the slot, and its descendants
\* are added to those of the branch
ReplaceChild(branch, i, decoded) ==
    [branch EXCEPT !.Children[i] = [decoded EXCEPT !.Dirty = TRUE],
                   !.Descendants = @ + decoded.Descendants]

RECURSIVE LoadProof(_, _)
RECURSIVE LoadProofRange(_, _, _)

\* The loop of LoadProof over the child slots i.. of a branch.  The range is
\* over the 16 slots the branch had on entry; once the children are cleared
\* every remaining slot is empty.
LoadProofRange(digestToEncoding, branch, i) ==
    IF i > ChildrenCapacity THEN [err |-> NilErr, n |-> branch]
    ELSE LET child == IF branch.Children = <<>> THEN NilNode
                      ELSE branch.Children[i]
         IN
         IF child = NilNode
         THEN LoadProofRange(digestToEncoding, branch, i + 1)
         ELSE
         LET merkleValue == child.NodeValue IN
         IF Str(merkleValue) \notin DOMAIN digestToEncoding
         THEN LET inlinedChild == InlinedChild(child)
              IN  IF inlinedChild
                  THEN LoadProofRange(digestToEncoding,
                           KeepInlinedChild(branch, i), i + 1)
                  ELSE LoadProofRange(digestToEncoding,
                           PruneChild(branch, i), i + 1)
         ELSE
         LET decoded == Decode(digestToEncoding[Str(merkleValue)]) IN
         IF decoded.err # NilErr
         THEN [err |-> NilErr, n |-> branch]
         ELSE LET replaced == ReplaceChild(branch, i, decoded.n)
                  loaded == LoadProof(digestToEncoding, replaced.Children[i])
                  withChild == [replaced EXCEPT !.Children[i] = loaded.n]
              IN  IF loaded.err # NilErr
                  THEN [err |-> NilErr, n |-> withChild]
                  ELSE LoadProofRange(digestToEncoding, withChild, i + 1)

\* LoadProof: the node n after loading, and the error returned
LoadProof(digestToEncoding, n) ==
    IF Kind(n) # "Branch" THEN [err |-> NilErr, n |-> n]
    ELSE LoadProofRange(digestToEncoding, n, 1)

RECURSIVE BuildTrieRangeBreaks(_, _, _, _, _, _)

\* BuildTrieRange leaving the loop as soon as the root is decoded: the encoded
\* nodes after the root are not indexed.
BuildTrieRangeBreaks(encodedProofNodes, rootHash, i, root, digestToEncoding, events) ==
    IF i > Len(encodedProofNodes)
    THEN [line |-> 0, root |-> root, digestToEncoding |-> digestToEncoding,
          events |-> events]
    ELSE LET encodedProofNode == encodedProofNodes[i]
             digest == MerkleValueRoot(encodedProofNode).digest
             evHashed == events \o <<"Reset", "MerkleValueRoot">>
         IN
         IF root # NilNode \/ ~BytesEqual(digest, rootHash)
         THEN BuildTrieRangeBreaks(encodedProofNodes, rootHash, i + 1, root,
                  MapPut(digestToEncoding, Str(digest), encodedProofNode),
                  evHashed)
         ELSE LET decoded == Decode(encodedProofNode) IN
              IF decoded.err # NilErr
              THEN [line |-> 198, root |-> root,
                    digestToEncoding |-> digestToEncoding,
                    events |-> evHashed \o <<"Decode">>]
              ELSE [line |-> 0, root |-> [decoded.n EXCEPT !.Dirty = TRUE],
                    digestToEncoding |-> digestToEncoding,
                    events |-> evHashed \o <<"Decode">>]

RECURSIVE BuildTrieRangeAnyRoot(_, _, _, _, _, _)

\* BuildTrieRange taking the first encoded node as root whatever its digest
BuildTrieRangeAnyRoot(encodedProofNodes, rootHash, i, root, digestToEncoding, events) ==
    IF i > Len(encodedProofNodes)
    THEN [line |-> 0, root |-> root, digestToEncoding |-> digestToEncoding,
          events |-> events]
    ELSE LET encodedProofNode == encodedProofNodes[i]
             hashed == MerkleValueRoot(encodedProofNode)
             digest == hashed.digest
             evHashed == events \o <<"Reset", "MerkleValueRoot">>
         IN
         IF hashed.err # NilErr
         THEN [line |-> 184, root |-> root,
               digestToEncoding |-> digestToEncoding, events |-> evHashed]
         ELSE IF root # NilNode
         THEN BuildTrieRangeAnyRoot(encodedProofNodes, rootHash, i + 1, root,
                  MapPut(digestToEncoding, Str(digest), encodedProofNode),
                  evHashed)
         ELSE LET decoded == Decode(encodedProofNode) IN
              IF decoded.err # NilErr
              THEN [line |-> 198, root |-> root,
                    digestToEncoding |-> digestToEncoding,
                    events |-> evHashed \o <<"Decode">>]
              ELSE BuildTrieRangeAnyRoot(encodedProofNodes, rootHash, i + 1,
                       [decoded.n EXCEPT !.Dirty = TRUE], digestToEncoding,
                       evHashed \o <<"Decode">>)

RECURSIVE BuildTrieRangeMerkleValue(_, _, _, _, _, _)

\* BuildTrieRange comparing the Merkle value of a child, which is the encoding
\* itself when shorter than a hash, with the root hash
BuildTrieRangeMerkleValue(encodedProofNodes, rootHash, i, root, digestToEncoding, events) ==
    IF i > Len(encodedProofNodes)
    THEN [line |-> 0, root |-> root, digestToEncoding |-> digestToEncoding,
          events |-> events]
    ELSE LET encodedProofNode == encodedProofNodes[i]
             hashed == MerkleValueRoot(encodedProofNode)
             digest == hashed.digest
             evHashed == events \o <<"Reset", "MerkleValueRoot">>
         IN
         IF hashed.err # NilErr
         THEN [line |-> 184, root |-> root,
               digestToEncoding |-> digestToEncoding, events |-> evHashed]
         ELSE IF root # NilNode \/ ~BytesEqual(MerkleValue(encodedProofNode), rootHash)
         THEN BuildTrieRangeMerkleValue(encodedProofNodes, rootHash, i + 1, root,
                  MapPut(digestToEncoding, Str(digest), encodedProofNode),
                  evHashed)
         ELSE LET decoded == Decode(encodedProofNode) IN
              IF decoded.err # NilErr
              THEN [line |-> 198, root |-> root,
                    digestToEncoding |-> digestToEncoding,
                    events |-> evHashed \o <<"Decode">>]
              ELSE BuildTrieRangeMerkleValue(encodedProofNodes, rootHash, i + 1,
                       [decoded.n EXCEPT !.Dirty = TRUE], digestToEncoding,
                       evHashed \o <<"Decode">>)

RECURSIVE BuildTrieRange(_, _, _, _, _, _)

\* The loop of BuildTrie over the encoded proof nodes i..: the root found so
\* far, the digest index and the calls made so far.  line is the line of an
\* early return, 0 when the loop ran to its end.
BuildTrieRange(encodedProofNodes, rootHash, i, root, digestToEncoding, events) ==
    IF i > Len(encodedProofNodes)
    THEN [line |-> 0, root |-> root, digestToEncoding |-> digestToEncoding,
          events |-> events]
    ELSE LET encodedProofNode == encodedProofNodes[i]
             hashed == MerkleValueRoot(encodedProofNode)
             digest == hashed.digest
             evHashed == events \o <<"Reset", "MerkleValueRoot">>
         IN
         IF hashed.err # NilErr
         THEN [line |-> 184, root |-> root,
               digestToEncoding |-> digestToEncoding, events |-> evHashed]
         ELSE IF root # NilNode \/ ~BytesEqual(digest, rootHash)
         THEN BuildTrieRange(encodedProofNodes, rootHash, i + 1, root,
                  MapPut(digestToEncoding, Str(digest), encodedProofNode),
                  evHashed)
         ELSE LET decoded == Decode(encodedProofNode) IN
              IF decoded.err # NilErr
              THEN [line |-> 198, root |-> root,
                    digestToEncoding |-> digestToEncoding,
                    events |-> evHashed \o <<"Decode">>]
              ELSE BuildTrieRange(encodedProofNodes, rootHash, i + 1,
                       [decoded.n EXCEPT !.Dirty = TRUE], digestToEncoding,
                       evHashed \o <<"Decode">>)

\* BuildTrie past the check of the proof length: the buffer is taken from the
\* pool, and put back when the function returns.
BuildTrieIndexed(encodedProofNodes, rootHash) ==
    LET range == BuildTrieRange(encodedProofNodes, rootHash, 1, NilNode,
                                EmptyMap, <<"Get">>)
    IN
    IF range.line # 0
    THEN [t |-> NilTrie, err |-> NilErr, line |-> range.line,
          events |-> range.events \o <<"Put">>]
    ELSE IF range.root = NilNode
    THEN [t |-> NilTrie, err |-> NilErr, line |-> 214,
          events |-> range.events \o <<"Put">>]
    ELSE LET loaded == LoadProof(range.digestToEncoding, range.root) IN
         IF loaded.err # NilErr
         THEN [t |-> NilTrie, err |-> NilErr, line |-> 221,
               events |-> range.events \o <<"LoadProof", "Put">>]
         ELSE [t |-> NewTrie(loaded.n), err |-> NilErr, line |-> 224,
               events |-> range.events \o <<"LoadProof", "Put">>]

\* BuildTrie without the check of the proof length
BuildTrieNoLengthCheck(encodedProofNodes, rootHash) ==
    BuildTrieIndexed(encodedProofNodes, rootHash)

\* BuildTrie: the trie and the error returned, the line of the return
\* statement taken and the calls made on the way
BuildTrie(encodedProofNodes, rootHash) ==
    IF Len(encodedProofNodes) = 0
    THEN [t |-> NilTrie, err |-> <<"ErrEmptyProof">>, line |-> 153,
          events |-> <<>>]
    ELSE BuildTrieIndexed(encodedProofNodes, rootHash)

\* Verify comparing the value found with the expected value also when the
\* expected value is empty
VerifyAlwaysCompares(encodedProofNodes, rootHash, key, value) ==
    LET built == BuildTrie(encodedProofNodes, rootHash)
        proofTrie == built.t
    IN
    IF built.err # NilErr THEN [err |-> NilErr, line |-> 125]
    ELSE IF proofTrie # NilTrie
    THEN LET proofTrieValue == Get(proofTrie, key) IN
         IF proofTrieValue = NilBytes THEN [err |-> NilErr, line |-> 132]
         ELSE IF ~BytesEqual(value, proofTrieValue)
         THEN [err |-> NilErr, line |-> 138]
         ELSE [err |-> NilErr, line |-> 142]
    ELSE [err |-> NilErr, line |-> 142]

\* Verify: the error returned and the line of the return statement taken
Verify(encodedProofNodes, rootHash, key, value) ==
    LET built == BuildTrie(encodedProofNodes, rootHash)
        proofTrie == built.t
    IN
    IF built.err # NilErr THEN [err |-> NilErr, line |-> 125]
    ELSE IF proofTrie # NilTrie
    THEN LET proofTrieValue == Get(proofTrie, key) IN
         IF proofTrieValue = NilBytes THEN [err |-> NilErr, line |-> 132]
         ELSE IF Size(value) > 0 /\ ~BytesEqual(value, proofTrieValue)
         THEN [err |-> NilErr, line |-> 138]
         ELSE [err |-> NilErr, line |-> 142]
    ELSE [err |-> NilErr, line |-> 142]

----------------------------------------------------------------------------
(* The inputs the calls are made on *)

\* generateBytes(t, 40): a storage value that makes an encoding long
LargeValue == Raw([i \in 1..40 |-> i])

LeafA == LeafEncoding(<<1>>, Raw(<<1>>))

LeafB == LeafEncoding(<<2>>, LargeValue)

\* the branch of Test_Verify: leaf B referenced by hash in slots 0 and 3,
\* leaf A inlined in slot 2
BranchAB ==
    BranchEncoding(<<3, 4>>, Raw(<<1>>),
        <<MerkleValue(LeafB), NilBytes, MerkleValue(LeafA), MerkleValue(LeafB)>>)

\* getBadNodeEncoding(): a header byte of unknown variant
BadNodeEncoding == Raw(<<1>>)

\* a branch whose only child is the hash of the bad encoding
BadParent == BranchEncoding(<<1>>, NilBytes, <<Blake2bHash(BadNodeEncoding)>>)

\* a branch referenced by hash, with leaf B below it, and the branch above it
MidBranch == BranchEncoding(<<2>>, Raw(<<2>>), <<MerkleValue(LeafB)>>)

TopBranch ==
    BranchEncoding(<<1, 1>>, Raw(<<>>), <<NilBytes, MerkleValue(MidBranch)>>)

\* the 32 bytes of the digest of leaf A, given as if they were an encoding
DigestBytes == Blake2bHash(LeafA)

EncodedNodes ==
    {LeafA, LeafB, BranchAB, BadNodeEncoding, BadParent, MidBranch, TopBranch,
     DigestBytes}

RECURSIVE SeqsUpTo(_, _)
\* the sequences over S of length at most n
SeqsUpTo(S, n) ==
    IF n = 0 THEN {<<>>}
    ELSE LET shorter == SeqsUpTo(S, n - 1)
         IN  shorter \cup {Append(s, x) : s \in shorter, x \in S}

Proofs == SeqsUpTo(EncodedNodes, MaxProofLen)

RootHashes ==
    {Blake2bHash(e) : e \in {LeafA, BranchAB, BadNodeEncoding, BadParent, TopBranch}}
    \cup {Raw(<<3>>)}

\* 0x3432 and 0x3421: the hashed and the inlined leaf of BranchAB; 0x0101: an
\* empty slot of it; 0x111202: leaf B below TopBranch
Keys == {Raw(<<52, 50>>), Raw(<<52, 33>>), Raw(<<1, 1>>), Raw(<<17, 18, 2>>)}

Values == {NilBytes, Raw(<<>>), Raw(<<1>>), Raw(<<2>>), LargeValue}

NoResult == [none |-> TRUE]

----------------------------------------------------------------------------
(* The calls *)

Init ==
    /\ proofNodes \in Proofs
    /\ expectedRoot \in RootHashes
    /\ searchKey = NilBytes
    /\ searchValue = NilBytes
    /\ pc = "ready"
    /\ ret = NoResult
    /\ digestIndex = EmptyMap
    /\ tree = NilNode
    /\ stack = <<>>
    /\ pool = <<>>
    /\ buffers = <<>>
    /\ calls = <<>>

CallVerify ==
    /\ pc = "ready"
    /\ \E k \in Keys, v \in Values :
          /\ searchKey' = k
          /\ searchValue' = v
          /\ ret' = Verify(proofNodes, expectedRoot, k, v)
    /\ pc' = "Verify"
    /\ UNCHANGED <<proofNodes, expectedRoot, digestIndex, tree, stack,
                   pool, buffers, calls>>

CallBuildTrie ==
    /\ pc = "ready"
    /\ ret' = BuildTrie(proofNodes, expectedRoot)
    /\ pc' = "BuildTrie"
    /\ UNCHANGED <<proofNodes, expectedRoot, searchKey, searchValue,
                   digestIndex, tree, stack,
                   pool, buffers, calls>>

Next == CallVerify \/ CallBuildTrie

Spec == Init /\ [][Next]_vars

----------------------------------------------------------------------------
(* The methods of Node, called on a node in any order *)

NodeValues == {NilBytes, Raw(<<1>>)}

StorageValues == {NilBytes, Raw(<<>>), Raw(<<1, 2>>), Raw(<<1, 3>>)}

\* leaves and branches with one child, with or without a cached Merkle value,
\* dirty or clean
NodeInputs ==
    {Node(pk, sv, children, nv, dirty, IF children = <<>> THEN 0 ELSE 1) :
        pk \in {<<>>, <<1>>}, sv \in StorageValues, nv \in NodeValues,
        dirty \in BOOLEAN,
        children \in {<<>>,
                      [i \in 1..ChildrenCapacity |->
                         IF i = 1
                         THEN Node(<<>>, NilBytes, <<>>, Raw(<<2>>), FALSE, 0)
                         ELSE NilNode]}}

InitNode ==
    /\ proofNodes = <<>>
    /\ expectedRoot = NilBytes
    /\ searchKey = NilBytes
    /\ searchValue = NilBytes
    /\ pc = "ready"
    /\ ret = NoResult
    /\ digestIndex = EmptyMap
    /\ tree \in NodeInputs
    /\ stack = <<>>
    /\ pool = <<>>
    /\ buffers = <<>>
    /\ calls = <<>>

CallSetDirty ==
    /\ tree' = SetDirty(tree)
    /\ pc' = "SetDirty"
    /\ ret' = NoResult
    /\ UNCHANGED <<proofNodes, expectedRoot, searchKey, searchValue,
                   digestIndex, stack,
                   pool, buffers, calls>>

CallSetClean ==
    /\ tree' = SetClean(tree)
    /\ pc' = "SetClean"
    /\ ret' = NoResult
    /\ UNCHANGED <<proofNodes, expectedRoot, searchKey, searchValue,
                   digestIndex, stack,
                   pool, buffers, calls>>

CallStorageValueEqual ==
    /\ \E v \in StorageValues :
          /\ searchValue' = v
          /\ ret' = [equal |-> StorageValueEqual(tree, v)]
    /\ pc' = "StorageValueEqual"
    /\ UNCHANGED <<proofNodes, expectedRoot, searchKey, digestIndex, tree,
                   stack,
                   pool, buffers, calls>>

NextNode == CallSetDirty \/ CallSetClean \/ CallStorageValueEqual

SpecNode == InitNode /\ [][NextNode]_vars

----------------------------------------------------------------------------
(* LoadProof, one iteration of its loop at a time *)

\* a leaf with a present, empty storage value, and a branch holding it inlined
EmptyLeaf == LeafEncoding(<<5>>, Raw(<<>>))

EmptyLeafParent ==
    BranchEncoding(<<6>>, NilBytes, <<MerkleValue(EmptyLeaf), MerkleValue(LeafB)>>)

\* a branch short enough to be inlined that itself holds an inlined leaf, and
\* a branch holding it
InlinedBranch == BranchEncoding(<<7>>, Raw(<<7>>), <<MerkleValue(LeafA)>>)

InlinedBranchParent ==
    BranchEncoding(<<8>>, NilBytes,
                   <<MerkleValue(InlinedBranch), NilBytes, MerkleValue(MidBranch)>>)

\* a branch whose child, referenced by hash, has a child that does not decode
BadGrandParent == BranchEncoding(<<9>>, NilBytes, <<NilBytes, MerkleValue(BadParent)>>)

\* the digest index holding the encodings of S
IndexOf(S) == [d \in {Str(Blake2bHash(e)) : e \in S} |-> d.of]

LoadIndexes ==
    {IndexOf(S) : S \in SUBSET {LeafA, LeafB, BadNodeEncoding, BadParent, MidBranch}}

\* the root nodes as BuildTrie hands them to LoadProof: decoded and dirty
LoadNodes ==
    {[Decode(e).n EXCEPT !.Dirty = TRUE] :
        e \in {LeafA, BranchAB, BadParent, BadGrandParent, TopBranch,
               EmptyLeafParent, InlinedBranchParent}}

RECURSIVE NodeAt(_, _)
\* the node reached from n along a path of child slots
NodeAt(n, path) ==
    IF path = <<>> THEN n ELSE NodeAt(n.Children[Head(path)], Tail(path))

RECURSIVE ReplaceAt(_, _, _)
\* n with the node at the end of the path replaced
ReplaceAt(n, path, new) ==
    IF path = <<>> THEN new
    ELSE [n EXCEPT !.Children[Head(path)] = ReplaceAt(@, Tail(path), new)]

\* the innermost call of LoadProof and the branch and child it is at
Top == stack[Len(stack)]

TopBranchNode == NodeAt(tree, Top.path)

TopChild ==
    IF TopBranchNode.Children = <<>> THEN NilNode
    ELSE TopBranchNode.Children[Top.i]

\* the loop of the innermost call moves to the next slot
Advance(stk) == [stk EXCEPT ![Len(stk)].i = @ + 1]

\* the innermost call returns: its caller, if any, goes on with the next slot
Return(stk) ==
    IF Len(stk) = 1 THEN <<>> ELSE Advance(SubSeq(stk, 1, Len(stk) - 1))

InLoop == pc = "LoadProof" /\ stack # <<>> /\ Top.i <= ChildrenCapacity

InitLoad ==
    /\ proofNodes = <<>>
    /\ expectedRoot = NilBytes
    /\ searchKey = NilBytes
    /\ searchValue = NilBytes
    /\ pc = "ready"
    /\ ret = NoResult
    /\ digestIndex \in LoadIndexes
    /\ tree \in LoadNodes
    /\ stack = <<>>
    /\ pool = <<>>
    /\ buffers = <<>>
    /\ calls = <<>>

\* LoadProof is called on the node; a node that is no branch returns at once
CallLoadProof ==
    /\ pc = "ready"
    /\ IF Kind(tree) # "Branch"
       THEN pc' = "returned" /\ ret' = [err |-> NilErr] /\ stack' = <<>>
       ELSE pc' = "LoadProof" /\ ret' = NoResult
            /\ stack' = <<[path |-> <<>>, i |-> 1]>>
    /\ UNCHANGED <<proofNodes, expectedRoot, searchKey, searchValue,
                   digestIndex, tree,
                   pool, buffers, calls>>

\* an empty slot is skipped
SkipNilChild ==
    /\ InLoop
    /\ TopChild = NilNode
    /\ stack' = Advance(stack)
    /\ UNCHANGED <<proofNodes, expectedRoot, searchKey, searchValue, pc, ret,
                   digestIndex, tree,
                   pool, buffers, calls>>

\* the Merkle value of the child is not indexed and the child is inlined
KeepInlined ==
    /\ InLoop
    /\ TopChild # NilNode
    /\ Str(TopChild.NodeValue) \notin DOMAIN digestIndex
    /\ InlinedChild(TopChild)
    /\ tree' = ReplaceAt(tree, Top.path, KeepInlinedChild(TopBranchNode, Top.i))
    /\ stack' = Advance(stack)
    /\ UNCHANGED <<proofNodes, expectedRoot, searchKey, searchValue, pc, ret,
                   digestIndex,
                   pool, buffers, calls>>

\* the Merkle value of the child is not indexed and the child is not inlined
Prune ==
    /\ InLoop
    /\ TopChild # NilNode
    /\ Str(TopChild.NodeValue) \notin DOMAIN digestIndex
    /\ ~InlinedChild(TopChild)
    /\ tree' = ReplaceAt(tree, Top.path, PruneChild(TopBranchNode, Top.i))
    /\ stack' = Advance(stack)
    /\ UNCHANGED <<proofNodes, expectedRoot, searchKey, searchValue, pc, ret,
                   digestIndex,
                   pool, buffers, calls>>

\* the indexed encoding of the child does not decode: the call returns nil
DecodeChildFails ==
    /\ InLoop
    /\ TopChild # NilNode
    /\ Str(TopChild.NodeValue) \in DOMAIN digestIndex
    /\ Decode(digestIndex[Str(TopChild.NodeValue)]).err # NilErr
    /\ stack' = Return(stack)
    /\ pc' = IF stack' = <<>> THEN "returned" ELSE pc
    /\ ret' = IF stack' = <<>> THEN [err |-> NilErr] ELSE ret
    /\ UNCHANGED <<proofNodes, expectedRoot, searchKey, searchValue,
                   digestIndex, tree,
                   pool, buffers, calls>>

\* the indexed encoding of the child decodes: the child takes the slot and
\* LoadProof is called on it, which returns at once unless it is a branch
Materialize ==
    /\ InLoop
    /\ TopChild # NilNode
    /\ Str(TopChild.NodeValue) \in DOMAIN digestIndex
    /\ LET decoded == Decode(digestIndex[Str(TopChild.NodeValue)])
       IN  /\ decoded.err = NilErr
           /\ tree' = ReplaceAt(tree, Top.path,
                                ReplaceChild(TopBranchNode, Top.i, decoded.n))
           /\ Kind(decoded.n) = "Branch" => Len(stack) < MaxDepth
           /\ stack' = IF Kind(decoded.n) # "Branch" THEN Advance(stack)
                       ELSE Append(stack, [path |-> Append(Top.path, Top.i),
                                           i |-> 1])
    /\ UNCHANGED <<proofNodes, expectedRoot, searchKey, searchValue, pc, ret,
                   digestIndex,
                   pool, buffers, calls>>

\* the loop is over: the call returns nil
ReturnLoadProof ==
    /\ pc = "LoadProof"
    /\ stack # <<>>
    /\ Top.i > ChildrenCapacity
    /\ stack' = Return(stack)
    /\ pc' = IF stack' = <<>> THEN "returned" ELSE pc
    /\ ret' = IF stack' = <<>> THEN [err |-> NilErr] ELSE ret
    /\ UNCHANGED <<proofNodes, expectedRoot, searchKey, searchValue,
                   digestIndex, tree,
                   pool, buffers, calls>>

NextLoad ==
    \/ CallLoadProof
    \/ SkipNilChild
    \/ KeepInlined
    \/ Prune
    \/ DecodeChildFails
    \/ Materialize
    \/ ReturnLoadProof

SpecLoad == InitLoad /\ [][NextLoad]_vars

----------------------------------------------------------------------------
(* LoadProof on any index, also one that is no index of digests *)

\* a branch whose child is referenced by the 32 bytes under which the branch
\* itself is indexed
CyclicKey == Blake2bHash(LeafB)

CyclicBranch == BranchEncoding(<<4>>, NilBytes, <<CyclicKey>>)

CyclicIndex == [d \in {Str(CyclicKey)} |-> CyclicBranch]

InitAnyIndex ==
    /\ proofNodes = <<>>
    /\ expectedRoot = NilBytes
    /\ searchKey = NilBytes
    /\ searchValue = NilBytes
    /\ pc = "ready"
    /\ ret = NoResult
    /\ digestIndex \in LoadIndexes \cup {CyclicIndex}
    /\ tree \in LoadNodes \cup {[Decode(CyclicBranch).n EXCEPT !.Dirty = TRUE]}
    /\ stack = <<>>
    /\ pool = <<>>
    /\ buffers = <<>>
    /\ calls = <<>>

\* the indexed encoding of the child decodes to a branch and the stack has no
\* room for the call of LoadProof on it: the runtime ends the program
StackOverflow ==
    /\ InLoop
    /\ TopChild # NilNode
    /\ Str(TopChild.NodeValue) \in DOMAIN digestIndex
    /\ LET decoded == Decode(digestIndex[Str(TopChild.NodeValue)])
       IN  /\ decoded.err = NilErr
           /\ Kind(decoded.n) = "Branch"
           /\ Len(stack) >= MaxDepth
           /\ tree' = ReplaceAt(tree, Top.path,
                                ReplaceChild(TopBranchNode, Top.i, decoded.n))
    /\ pc' = "fatal"
    /\ UNCHANGED <<proofNodes, expectedRoot, searchKey, searchValue, ret,
                   digestIndex, stack, pool, buffers, calls>>

NextAnyIndex == NextLoad \/ StackOverflow

\* the goroutine that called LoadProof keeps running
SpecAnyIndex ==
    InitAnyIndex /\ [][NextAnyIndex]_vars /\ WF_vars(NextAnyIndex)

----------------------------------------------------------------------------
(* SetDirty and SetClean called on the nodes of the tree LoadProof left *)

RECURSIVE PathsBelow(_)
\* the paths of child slots from n to the nodes below it
PathsBelow(n) ==
    IF n.Children = <<>> THEN {}
    ELSE UNION {IF n.Children[i] = NilNode THEN {}
                ELSE {<<i>>} \cup {<<i>> \o p : p \in PathsBelow(n.Children[i])} :
                i \in 1..Len(n.Children)}

Loaded == pc \in {"returned", "SetDirty", "SetClean"}

SetDirtyInTree ==
    /\ Loaded
    /\ \E path \in {<<>>} \cup PathsBelow(tree) :
          tree' = ReplaceAt(tree, path, SetDirty(NodeAt(tree, path)))
    /\ pc' = "SetDirty"
    /\ UNCHANGED <<proofNodes, expectedRoot, searchKey, searchValue, ret,
                   digestIndex, stack,
                   pool, buffers, calls>>

SetCleanInTree ==
    /\ Loaded
    /\ \E path \in {<<>>} \cup PathsBelow(tree) :
          tree' = ReplaceAt(tree, path, SetClean(NodeAt(tree, path)))
    /\ pc' = "SetClean"
    /\ UNCHANGED <<proofNodes, expectedRoot, searchKey, searchValue, ret,
                   digestIndex, stack,
                   pool, buffers, calls>>

NextCache == NextLoad \/ SetDirtyInTree \/ SetCleanInTree

SpecCache == InitLoad /\ [][NextCache]_vars

----------------------------------------------------------------------------
(* Calls of BuildTrie running at the same time, sharing the buffer pool *)

\* the number of calls under way
NumCalls == 2

Callers == 1..NumCalls

\* no buffer taken
NoBuffer == 0

\* DigestBuffers.Get hands out a free buffer of the pool, any of them, or a
\* new one when the pool has none; buffers are numbered as they are created
PoolCandidates(pl, bufs) ==
    IF pl = <<>> THEN {Len(bufs) + 1} ELSE {pl[j] : j \in 1..Len(pl)}

\* the pool with the buffer b handed out still in it
PoolWithoutKeeps(pl, b) == pl

\* the pool once the buffer b has been handed out
PoolWithout(pl, b) ==
    IF \A j \in 1..Len(pl) : pl[j] # b THEN pl
    ELSE LET first == CHOOSE j \in 1..Len(pl) :
                         pl[j] = b /\ \A h \in 1..(j - 1) : pl[h] # b
         IN  SubSeq(pl, 1, first - 1) \o SubSeq(pl, first + 1, Len(pl))

\* DigestBuffers.Put
PoolPut(pl, b) == Append(pl, b)

\* a return of BuildTrie that skips the deferred call
RunNoDeferred(pl, b) == pl

\* the deferred DigestBuffers.Put(buffer), run when BuildTrie returns
RunDeferred(pl, b) == PoolPut(pl, b)

\* buffer.Bytes(): what was written to the buffer since its last reset
BufferBytes(content) ==
    IF content = <<>> THEN Raw(<<>>)
    ELSE IF Len(content) = 1 THEN content[1]
    ELSE [t |-> "concat", parts |-> content]

\* the proofs and root hashes of the calls: an empty proof, a leaf as root, a
\* branch before and after the leaf it references, a root that does not
\* decode, a proof without its root
PoolCalls ==
    {[proof |-> <<>>, rootHash |-> Blake2bHash(LeafA)],
     [proof |-> <<LeafA>>, rootHash |-> Blake2bHash(LeafA)],
     [proof |-> <<LeafB, BranchAB>>, rootHash |-> Blake2bHash(BranchAB)],
     [proof |-> <<BranchAB, LeafB>>, rootHash |-> Blake2bHash(BranchAB)],
     [proof |-> <<LeafA, BadNodeEncoding>>, rootHash |-> Blake2bHash(BadNodeEncoding)],
     [proof |-> <<LeafB>>, rootHash |-> Blake2bHash(LeafA)]}

\* a call of BuildTrie that has not started
NewCall(args) ==
    [proof |-> args.proof, rootHash |-> args.rootHash, at |-> "start",
     i |-> 1, root |-> NilNode, digestToEncoding |-> EmptyMap,
     buffer |-> NoBuffer, ret |-> NoResult]

\* the call returns: its result is set and it holds no buffer any more
Returned(call, t, err, line) ==
    [call EXCEPT !.at = "done", !.buffer = NoBuffer,
                 !.ret = [t |-> t, err |-> err, line |-> line]]

\* the pool is empty, or holds a buffer that an earlier call wrote a digest to
InitPool ==
    /\ proofNodes = <<>>
    /\ expectedRoot = NilBytes
    /\ searchKey = NilBytes
    /\ searchValue = NilBytes
    /\ pc = "ready"
    /\ ret = NoResult
    /\ digestIndex = EmptyMap
    /\ tree = NilNode
    /\ stack = <<>>
    /\ \/ pool = <<>> /\ buffers = <<>>
       \/ pool = <<1>> /\ buffers = << <<Blake2bHash(LeafB)>> >>
    /\ calls \in [Callers -> {NewCall(args) : args \in PoolCalls}]

\* the proof is empty: BuildTrie returns before it takes a buffer
ReturnEmptyProof(p) ==
    /\ calls[p].at = "start"
    /\ calls[p].proof = <<>>
    /\ calls' = [calls EXCEPT
                   ![p] = Returned(@, NilTrie, <<"ErrEmptyProof">>, 153)]
    /\ UNCHANGED <<proofNodes, expectedRoot, searchKey, searchValue, pc, ret,
                   digestIndex, tree, stack, pool, buffers>>

\* buffer := sub.DigestBuffers.Get()
GetBuffer(p) ==
    /\ calls[p].at = "start"
    /\ calls[p].proof # <<>>
    /\ \E b \in PoolCandidates(pool, buffers) :
          /\ pool' = PoolWithout(pool, b)
          /\ buffers' = IF b > Len(buffers) THEN Append(buffers, <<>>)
                        ELSE buffers
          /\ calls' = [calls EXCEPT ![p].buffer = b, ![p].at = "loop"]
    /\ UNCHANGED <<proofNodes, expectedRoot, searchKey, searchValue, pc, ret,
                   digestIndex, tree, stack>>

\* buffer.Reset()
ResetBuffer(p) ==
    /\ calls[p].at = "loop"
    /\ calls[p].i <= Len(calls[p].proof)
    /\ buffers' = [buffers EXCEPT ![calls[p].buffer] = <<>>]
    /\ calls' = [calls EXCEPT ![p].at = "reset"]
    /\ UNCHANGED <<proofNodes, expectedRoot, searchKey, searchValue, pc, ret,
                   digestIndex, tree, stack, pool>>

\* sub.MerkleValueRoot(encodedProofNode, buffer) writes the digest
HashNode(p) ==
    /\ calls[p].at = "reset"
    /\ buffers' = [buffers EXCEPT ![calls[p].buffer] =
                     Append(@, MerkleValueRoot(calls[p].proof[calls[p].i]).digest)]
    /\ calls' = [calls EXCEPT ![p].at = "hashed"]
    /\ UNCHANGED <<proofNodes, expectedRoot, searchKey, searchValue, pc, ret,
                   digestIndex, tree, stack, pool>>

\* digest := buffer.Bytes(), as the call reads it
Digest(p) == BufferBytes(buffers[calls[p].buffer])

\* the root is known or the digest is not the root hash: the node is indexed
\* under a copy of the digest
IndexNode(p) ==
    /\ calls[p].at = "hashed"
    /\ calls[p].root # NilNode \/ ~BytesEqual(Digest(p), calls[p].rootHash)
    /\ calls' = [calls EXCEPT
                   ![p].digestToEncoding =
                       MapPut(@, Str(Digest(p)), calls[p].proof[calls[p].i]),
                   ![p].i = @ + 1,
                   ![p].at = "loop"]
    /\ UNCHANGED <<proofNodes, expectedRoot, searchKey, searchValue, pc, ret,
                   digestIndex, tree, stack, pool, buffers>>

\* the digest is the root hash and the node decodes: it is the root
DecodeRoot(p) ==
    /\ calls[p].at = "hashed"
    /\ calls[p].root = NilNode
    /\ BytesEqual(Digest(p), calls[p].rootHash)
    /\ LET decoded == Decode(calls[p].proof[calls[p].i])
       IN  /\ decoded.err = NilErr
           /\ calls' = [calls EXCEPT
                          ![p].root = [decoded.n EXCEPT !.Dirty = TRUE],
                          ![p].i = @ + 1,
                          ![p].at = "loop"]
    /\ UNCHANGED <<proofNodes, expectedRoot, searchKey, searchValue, pc, ret,
                   digestIndex, tree, stack, pool, buffers>>

\* the digest is the root hash and the node does not decode
DecodeRootFails(p) ==
    /\ calls[p].at = "hashed"
    /\ calls[p].root = NilNode
    /\ BytesEqual(Digest(p), calls[p].rootHash)
    /\ Decode(calls[p].proof[calls[p].i]).err # NilErr
    /\ calls' = [calls EXCEPT ![p] = Returned(@, NilTrie, NilErr, 198)]
    /\ pool' = RunDeferred(pool, calls[p].buffer)
    /\ UNCHANGED <<proofNodes, expectedRoot, searchKey, searchValue, pc, ret,
                   digestIndex, tree, stack, buffers>>

\* the loop is over and no node was the root
ReturnRootNotFound(p) ==
    /\ calls[p].at = "loop"
    /\ calls[p].i > Len(calls[p].proof)
    /\ calls[p].root = NilNode
    /\ calls' = [calls EXCEPT ![p] = Returned(@, NilTrie, NilErr, 214)]
    /\ pool' = RunDeferred(pool, calls[p].buffer)
    /\ UNCHANGED <<proofNodes, expectedRoot, searchKey, searchValue, pc, ret,
                   digestIndex, tree, stack, buffers>>

\* the loop is over: the proof is loaded below the root and the trie returned
ReturnTrie(p) ==
    /\ calls[p].at = "loop"
    /\ calls[p].i > Len(calls[p].proof)
    /\ calls[p].root # NilNode
    /\ LET loaded == LoadProof(calls[p].digestToEncoding, calls[p].root)
       IN  calls' = [calls EXCEPT
                       ![p] = IF loaded.err # NilErr
                              THEN Returned(@, NilTrie, NilErr, 221)
                              ELSE Returned(@, NewTrie(loaded.n), NilErr, 224)]
    /\ pool' = RunDeferred(pool, calls[p].buffer)
    /\ UNCHANGED <<proofNodes, expectedRoot, searchKey, searchValue, pc, ret,
                   digestIndex, tree, stack, buffers>>

NextPool ==
    \E p \in Callers :
        \/ ReturnEmptyProof(p)
        \/ GetBuffer(p)
        \/ ResetBuffer(p)
        \/ HashNode(p)
        \/ IndexNode(p)
        \/ DecodeRoot(p)
        \/ DecodeRootFails(p)
        \/ ReturnRootNotFound(p)
        \/ ReturnTrie(p)

SpecPool == InitPool /\ [][NextPool]_vars

----------------------------------------------------------------------------
(* What the claims speak of *)

\* the trie and the error BuildTrie gives on the arguments of the call
Built == BuildTrie(proofNodes, expectedRoot)

\* some encoded node of the proof hashes to the expected root hash
RootInProof ==
    \E i \in 1..Len(proofNodes) :
        BytesEqual(Blake2bHash(proofNodes[i]), expectedRoot)

\* the proof trie was built: a trie and no error
TrieBuilt == Built.err = NilErr /\ Built.t # NilTrie

\* the value the lookup of the searched key finds in the proof trie
Found == Get(Built.t, searchKey)

\* the permutations of a sequence
PermutationsOf(s) ==
    {[i \in 1..Len(s) |-> s[f[i]]] :
        f \in {g \in [1..Len(s) -> 1..Len(s)] :
                 \A a, b \in 1..Len(s) : g[a] = g[b] => a = b}}

\* the digest index of a proof: every encoded node under its digest
ProofIndex(encodedProofNodes) ==
    [d \in {Str(Blake2bHash(encodedProofNodes[i])) :
              i \in 1..Len(encodedProofNodes)} |-> d.of]

RECURSIVE HashReferences(_)
\* the Merkle values of the children of a decoded node, at any depth, that
\* are references by hash
HashReferences(n) ==
    IF n = NilNode \/ n.Children = <<>> THEN {}
    ELSE UNION {IF n.Children[i] = NilNode THEN {}
                ELSE IF n.Children[i].NodeValue # NilBytes
                THEN {n.Children[i].NodeValue}
                ELSE HashReferences(n.Children[i]) :
                i \in 1..Len(n.Children)}

RECURSIVE DecodeFailures(_, _)
\* the decoding errors of an encoding and of the indexed encodings that the
\* hash references reachable from it name
DecodeFailures(index, encoding) ==
    LET decoded == Decode(encoding) IN
    IF decoded.err # NilErr THEN {decoded.err}
    ELSE UNION {DecodeFailures(index, index[h]) :
                  h \in HashReferences(decoded.n) \cap DOMAIN index}

\* the proof with one more encoded node, placed after the first k
InsertAt(encodedProofNodes, k, extra) ==
    SubSeq(encodedProofNodes, 1, k) \o <<extra>>
    \o SubSeq(encodedProofNodes, k + 1, Len(encodedProofNodes))

RECURSIVE ReachableReferences(_, _)
\* the digests that the hash references reachable from an encoding name,
\* going through the indexed encodings
ReachableReferences(index, encoding) ==
    LET decoded == Decode(encoding) IN
    IF decoded.err # NilErr THEN {}
    ELSE HashReferences(decoded.n)
         \cup UNION {ReachableReferences(index, index[h]) :
                       h \in HashReferences(decoded.n) \cap DOMAIN index}

\* the encoded node is neither the root of the proof nor referenced from it,
\* once it is part of the proof
Unused(extra) ==
    /\ ~BytesEqual(Blake2bHash(extra), expectedRoot)
    /\ RootInProof =>
          Blake2bHash(extra) \notin
             ReachableReferences(ProofIndex(Append(proofNodes, extra)),
                                 expectedRoot.of)

RECURSIVE NodesBelow(_)
\* the nodes in the child slots of n, at any depth
NodesBelow(n) ==
    IF n.Children = <<>> THEN {}
    ELSE UNION {IF n.Children[i] = NilNode THEN {}
                ELSE {n.Children[i]} \cup NodesBelow(n.Children[i]) :
                i \in 1..Len(n.Children)}

RECURSIVE CountBelow(_)
RECURSIVE CountSlots(_, _)
\* the number of non-empty child slots below n, at any depth
CountBelow(n) == CountSlots(n.Children, 1)

CountSlots(children, i) ==
    IF i > Len(children) THEN 0
    ELSE (IF children[i] = NilNode THEN 0 ELSE 1 + CountBelow(children[i]))
         + CountSlots(children, i + 1)

\* a child slot holding nothing but the Merkle value of a node
BareReference(c) ==
    c.NodeValue # NilBytes /\ c.StorageValue = NilBytes /\ ~HasChild(c)

\* the fields of a node other than the dirty flag and the cached Merkle value
SameContents(a, b) ==
    /\ a.PartialKey = b.PartialKey
    /\ a.StorageValue = b.StorageValue
    /\ a.Children = b.Children
    /\ a.Descendants = b.Descendants

----------------------------------------------------------------------------
(* Claims *)

\* C1 - Verification soundness: when Verify returns nil, some node of the
\* proof hashes to the root hash, the proof trie is built from it, and the
\* lookup of the key in that trie gives the expected value when that is not
\* empty, and a present value when it is empty.
C1_VerifySound ==
    (pc = "Verify" /\ ret.err = NilErr) =>
        /\ RootInProof
        /\ TrieBuilt
        /\ Found # NilBytes
        /\ Size(searchValue) > 0 => BytesEqual(Found, searchValue)

\* C2 - Verify returns a non-nil error whenever building the proof trie
\* fails, and an error wrapping ErrEmptyProof when the proof has no node.
C2_VerifySurfacesBuildFailure ==
    pc = "Verify" =>
        /\ Built.err # NilErr => ret.err # NilErr
        /\ Len(proofNodes) = 0 => ErrorIs(ret.err, "ErrEmptyProof")

\* C3 - When the proof trie is built and the lookup of the key in it finds no
\* value, Verify returns an error wrapping ErrKeyNotFoundInProofTrie.
C3_VerifyKeyNotFound ==
    (pc = "Verify" /\ TrieBuilt /\ Found = NilBytes) =>
        ErrorIs(ret.err, "ErrKeyNotFoundInProofTrie")

\* C4 - When the proof trie is built, the key is found and the non-empty
\* expected value differs from the value found, Verify returns an error
\* wrapping ErrValueMismatchProofTrie.
C4_VerifyValueMismatch ==
    (/\ pc = "Verify" /\ TrieBuilt /\ Found # NilBytes
     /\ Size(searchValue) > 0 /\ ~BytesEqual(searchValue, Found)) =>
        ErrorIs(ret.err, "ErrValueMismatchProofTrie")

\* C5 - Existence-only check: with a nil or empty expected value, a built
\* proof trie and a key that has a value in it, Verify returns nil by its
\* final return, whatever the stored value; the return of the value
\* comparison is taken only when the expected value is not empty.
C5_ExistenceOnly ==
    pc = "Verify" =>
        /\ (Size(searchValue) = 0 /\ TrieBuilt /\ Found # NilBytes) =>
              (ret.err = NilErr /\ ret.line = 142)
        /\ ret.line = 138 => Size(searchValue) > 0

C5_Witness ==
    /\ pc = "Verify" /\ TrieBuilt
    /\ searchValue = Raw(<<>>)
    /\ Size(Found) > 0
    /\ ret.line = 142

\* C6 - BuildTrie on an empty proof returns a nil trie and an error wrapping
\* ErrEmptyProof, for every root hash, before it takes a buffer, hashes or
\* decodes anything.
C6_EmptyProofRejected ==
    (pc = "BuildTrie" /\ Len(proofNodes) = 0) =>
        /\ ret.t = NilTrie
        /\ ErrorIs(ret.err, "ErrEmptyProof")
        /\ ret.events = <<>>

C6_Witness ==
    /\ pc = "BuildTrie" /\ proofNodes = <<>>
    /\ expectedRoot = Blake2bHash(LeafA)
    /\ ret.line = 153

\* C7 - When the proof is not empty and none of its encoded nodes hashes to
\* the expected root hash, BuildTrie returns a nil trie and an error wrapping
\* ErrRootNodeNotFound.
C7_RootNotFound ==
    (pc = "BuildTrie" /\ Len(proofNodes) > 0 /\ ~RootInProof) =>
        /\ ret.t = NilTrie
        /\ ErrorIs(ret.err, "ErrRootNodeNotFound")

\* C8 - BuildTrie returns either a trie or an error: exactly one of the two
\* is not nil.
C8_TrieOrError ==
    pc = "BuildTrie" => ((ret.t # NilTrie) # (ret.err # NilErr))

\* C9 - A decoding failure of the root node, or of an indexed encoding that a
\* hash reference reachable from the root names, makes BuildTrie return no
\* trie and an error wrapping the decoding error.
C9_DecodeFailureIsFatal ==
    (pc = "BuildTrie" /\ RootInProof) =>
        LET failures == DecodeFailures(ProofIndex(proofNodes), expectedRoot.of)
        IN  failures # {} =>
                /\ ret.t = NilTrie
                /\ \E e \in failures : ErrorIs(ret.err, e[Len(e)])

\* C10 - Proof order independence: BuildTrie returns the same trie and the
\* same error on every permutation of the proof.
C10_OrderIndependent ==
    pc = "BuildTrie" =>
        \A permuted \in PermutationsOf(proofNodes) :
            LET other == BuildTrie(permuted, expectedRoot)
            IN  other.t = ret.t /\ other.err = ret.err

C10_Witness ==
    /\ pc = "BuildTrie"
    /\ proofNodes = <<LeafB, MidBranch, TopBranch>>
    /\ expectedRoot = Blake2bHash(TopBranch)
    /\ ret.t # NilTrie
    /\ ret.t.root.Children[2].Children[1].StorageValue = LargeValue

\* C16 - SetDirty sets the dirty flag and clears the cached Merkle value
\* whatever the flag was; SetClean clears the flag and leaves the cached
\* Merkle value as it is; both leave the partial key, the storage value, the
\* children and the descendant count unchanged, and calling either a second
\* time changes nothing.
C16_DirtyFlagMethods ==
    [][/\ pc' = "SetDirty" =>
            /\ tree'.Dirty
            /\ tree'.NodeValue = NilBytes
            /\ SameContents(tree, tree')
            /\ (pc = "SetDirty" => tree' = tree)
       /\ pc' = "SetClean" =>
            /\ ~tree'.Dirty
            /\ tree'.NodeValue = tree.NodeValue
            /\ SameContents(tree, tree')
            /\ (pc = "SetClean" => tree' = tree)]_vars

\* SetDirty has run on a branch with a storage value: its cached Merkle value
\* is gone, its child is still there
C16_Witness ==
    /\ pc = "SetDirty"
    /\ tree.Dirty
    /\ tree.NodeValue = NilBytes
    /\ tree.StorageValue = Raw(<<1, 2>>)
    /\ HasChild(tree)
    /\ tree.Descendants = 1

\* C17 - StorageValueEqual tells nil from empty: it returns true exactly when
\* the storage value of the node and the argument are both absent, or both
\* present with the same bytes; an absent value and a present empty one are
\* not equal, whichever side is the absent one.
C17_StorageValueEqualNilVsEmpty ==
    pc = "StorageValueEqual" =>
        ret.equal =
            (\/ tree.StorageValue = NilBytes /\ searchValue = NilBytes
             \/ /\ tree.StorageValue # NilBytes
                /\ searchValue # NilBytes
                /\ tree.StorageValue.b = searchValue.b)

\* a node without storage value compared with the empty value: not equal
C17_Witness ==
    /\ pc = "StorageValueEqual"
    /\ tree.StorageValue = NilBytes
    /\ searchValue = Raw(<<>>)
    /\ ret.equal = FALSE

\* C11 - Pruning consistency: once LoadProof has returned on a branch, every
\* non-empty child slot of the tree below it holds a node materialized from
\* the index or an inlined child (one with a storage value or a child of its
\* own); no slot holds a bare hash reference, be its digest absent from the
\* index or present in it.
C11_PruningConsistency ==
    pc = "returned" => \A c \in NodesBelow(tree) : ~BareReference(c)

\* C12 - Descendant count: in every trie BuildTrie returns, the descendant
\* count of each node is the number of non-empty child slots below it, at
\* every depth, also after grandchildren were materialized or pruned.
C12_DescendantCount ==
    pc = "BuildTrie" /\ ret.t # NilTrie =>
        \A n \in {ret.t.root} \cup NodesBelow(ret.t.root) :
            n.Descendants = CountBelow(n)

\* C13 - Unused proof nodes are discarded: adding to the proof, at any place,
\* an encoded node whose digest is neither the root hash nor named by a hash
\* reference reachable from the root leaves the trie BuildTrie returns as it
\* was.
C13_UnusedNodesDiscarded ==
    pc = "BuildTrie" =>
        \A extra \in EncodedNodes :
            Unused(extra) =>
                \A k \in 0..Len(proofNodes) :
                    BuildTrie(InsertAt(proofNodes, k, extra), expectedRoot).t
                        = ret.t

\* leaf A is the root and leaf B, which nothing references, is in the proof:
\* the trie is the one of the proof of leaf A alone
C13_Witness ==
    /\ pc = "BuildTrie"
    /\ proofNodes = <<LeafB, LeafA>>
    /\ expectedRoot = Blake2bHash(LeafA)
    /\ ret.t = BuildTrie(<<LeafA>>, expectedRoot).t
    /\ ret.t # NilTrie

\* C14 - The root is identified by hash only: BuildTrie decodes an encoded
\* node as root exactly when the BLAKE2b-256 digest of its encoding is the
\* expected root hash, also for an encoding shorter than 32 bytes, and the
\* root of the trie is that node; an encoding whose bytes are the root hash
\* but whose digest is not is never taken.
C14_RootByHashOnly ==
    pc = "BuildTrie" /\ proofNodes # <<>> =>
        /\ (ret.line \in {198, 221, 224}) = RootInProof
        /\ (\E j \in 1..Len(ret.events) : ret.events[j] = "Decode") = RootInProof
        /\ ret.t # NilTrie =>
              /\ ret.t.root.PartialKey = Decode(expectedRoot.of).n.PartialKey
              /\ ret.t.root.StorageValue = Decode(expectedRoot.of).n.StorageValue

\* the proof holds the bytes of the root hash and then the 4 byte encoding of
\* leaf A, whose digest is the root hash: leaf A is the root of the trie
C14_Witness ==
    /\ pc = "BuildTrie"
    /\ proofNodes = <<DigestBytes, LeafA>>
    /\ expectedRoot = DigestBytes
    /\ ret.line = 224
    /\ ret.t.root.PartialKey = <<1>>
    /\ ret.t.root.StorageValue = Raw(<<1>>)

\* C15 - Every node of a trie returned by BuildTrie is dirty: the root, which
\* BuildTrie marks before it calls LoadProof, and every node LoadProof leaves
\* below it, at every depth, inlined children of inlined children included.
C15_AllDirty ==
    pc = "returned" /\ tree.Dirty => \A c \in NodesBelow(tree) : c.Dirty

\* C18 - LoadProof keeps an inlined child whose storage value is present but
\* empty and which has no children: a child whose Merkle value is not indexed
\* and whose storage value is present, of any length, stays in its slot.
C18_EmptyValueChildKept ==
    [][InLoop /\ TopChild # NilNode
         /\ Str(TopChild.NodeValue) \notin DOMAIN digestIndex
         /\ TopChild.StorageValue # NilBytes
       => /\ NodeAt(tree', Top.path).Children # <<>>
          /\ NodeAt(tree', Top.path).Children[Top.i]
                = [TopChild EXCEPT !.Dirty = TRUE]]_vars

\* C19 - Pruning step: a child whose Merkle value is not indexed and which is
\* not inlined leaves its slot empty and takes 1 plus its own descendant
\* count off the count of the branch; the children of the branch are cleared
\* when none is left; the partial key, the storage value and the other slots
\* of the branch stay as they are.
C19_PruningStep ==
    [][InLoop /\ TopChild # NilNode
         /\ Str(TopChild.NodeValue) \notin DOMAIN digestIndex
         /\ TopChild.StorageValue = NilBytes /\ ~HasChild(TopChild)
       => LET before == TopBranchNode
              after == NodeAt(tree', Top.path)
              others == \E j \in 1..ChildrenCapacity :
                           j # Top.i /\ before.Children[j] # NilNode
          IN  /\ after.Descendants
                    = before.Descendants - (1 + TopChild.Descendants)
              /\ after.Children =
                    IF others THEN [before.Children EXCEPT ![Top.i] = NilNode]
                    ELSE <<>>
              /\ after.PartialKey = before.PartialKey
              /\ after.StorageValue = before.StorageValue
              /\ after.NodeValue = before.NodeValue
              /\ after.Dirty = before.Dirty
              /\ tree' = ReplaceAt(tree, Top.path, after)]_vars

\* the only child of the root was pruned from its slot: no children are left
C19_Witness ==
    /\ pc = "LoadProof"
    /\ Len(stack) = 1
    /\ Top.i = 3
    /\ tree.PartialKey = <<9>>
    /\ tree.Children = <<>>
    /\ tree.Descendants = 0

\* C20 - Materialization step: a child whose Merkle value is a key of the
\* index is replaced by the node decoded from the indexed encoding, marked
\* dirty; the count of the branch grows by the descendant count of the decoded
\* child; LoadProof is then called on the new child before the loop moves to
\* the next slot; the slots of a branch are gone through in ascending order.
C20_MaterializationStep ==
    [][/\ InLoop /\ TopChild # NilNode
          /\ Str(TopChild.NodeValue) \in DOMAIN digestIndex
          /\ Decode(digestIndex[Str(TopChild.NodeValue)]).err = NilErr
          => LET decoded == Decode(digestIndex[Str(TopChild.NodeValue)]).n
                 before == TopBranchNode
                 after == NodeAt(tree', Top.path)
             IN  /\ after.Children
                       = [before.Children EXCEPT
                            ![Top.i] = [decoded EXCEPT !.Dirty = TRUE]]
                 /\ after.Descendants
                       = before.Descendants + decoded.Descendants
                 /\ stack' =
                       IF Kind(decoded) = "Branch"
                       THEN Append(stack, [path |-> Append(Top.path, Top.i),
                                           i |-> 1])
                       ELSE Advance(stack)
       /\ \A d \in 1..Len(stack) :
             d <= Len(stack') =>
                /\ stack'[d].path = stack[d].path
                /\ IF d < Len(stack) /\ d < Len(stack')
                   THEN stack'[d].i = stack[d].i
                   ELSE stack'[d].i \in {stack[d].i, stack[d].i + 1}
       /\ Len(stack') > Len(stack) => stack'[Len(stack')].i = 1]_vars

\* a branch with a child of its own was materialized below the root and
\* LoadProof is called on it
C20_Witness ==
    /\ pc = "LoadProof"
    /\ Len(stack) = 2
    /\ Top.i = 1
    /\ TopBranchNode.Dirty
    /\ TopBranchNode.Descendants = 1
    /\ tree.Descendants = 2

\* C21 - When the indexed encoding of a child does not decode, LoadProof
\* returns a non-nil error wrapping the decoding error, whatever the depth of
\* the call that met it, and the tree is left as it was: the slot still holds
\* the hash reference and the descendant counts are unchanged.
C21_DecodeErrorReturned ==
    [][InLoop /\ TopChild # NilNode
         /\ Str(TopChild.NodeValue) \in DOMAIN digestIndex
         /\ Decode(digestIndex[Str(TopChild.NodeValue)]).err # NilErr
       => LET decodeErr == Decode(digestIndex[Str(TopChild.NodeValue)]).err
          IN  /\ tree' = tree
              /\ pc' = "returned"
              /\ stack' = <<>>
              /\ ret'.err # NilErr
              /\ \A j \in 1..Len(decodeErr) : ErrorIs(ret'.err, decodeErr[j])]_vars

TimesInPool(b) == Cardinality({j \in 1..Len(pool) : pool[j] = b})

\* the calls that hold the buffer b
Holders(b) == {p \in Callers : calls[p].buffer = b}

\* C23 - Pooled buffer discipline in BuildTrie: a buffer taken from the pool
\* is held while the call runs and is back in the pool, once, when the call
\* has returned, whatever the exit; the buffer is reset before each proof
\* node is hashed, so that it holds the digest of that node alone; the keys
\* of the digest index are copies: each stays the digest of the encoding it
\* maps to, whatever is written to the buffer later.
C23_BufferDiscipline ==
    /\ \A b \in 1..Len(buffers) : TimesInPool(b) + Cardinality(Holders(b)) = 1
    /\ \A p \in Callers :
          /\ calls[p].at \in {"start", "done"} => calls[p].buffer = NoBuffer
          /\ calls[p].at \in {"loop", "reset", "hashed"} =>
                calls[p].buffer \in 1..Len(buffers)
          /\ calls[p].at = "reset" => buffers[calls[p].buffer] = <<>>
          /\ calls[p].at = "hashed" =>
                buffers[calls[p].buffer]
                    = <<Blake2bHash(calls[p].proof[calls[p].i])>>
          /\ \A k \in DOMAIN calls[p].digestToEncoding :
                k = Str(Blake2bHash(calls[p].digestToEncoding[k]))

\* one call has returned on the root that does not decode, the other with a
\* trie: every buffer created is back in the pool
C23_Witness ==
    /\ \E p \in Callers : calls[p].at = "done" /\ calls[p].ret.line = 198
    /\ \E p \in Callers : calls[p].at = "done" /\ calls[p].ret.line = 224
    /\ Len(buffers) >= 1
    /\ \A b \in 1..Len(buffers) : TimesInPool(b) = 1

\* C24 - Calls of BuildTrie running interleaved on their own proofs and
\* sharing only the buffer pool need no synchronization: no two calls hold
\* the same buffer at the same time, and each call returns what it returns
\* when it runs alone.
C24_ConcurrentCalls ==
    /\ \A p, q \in Callers :
          p # q /\ calls[p].buffer # NoBuffer =>
              calls[p].buffer # calls[q].buffer
    /\ \A p \in Callers :
          calls[p].at = "done" =>
              LET alone == BuildTrie(calls[p].proof, calls[p].rootHash)
              IN  calls[p].ret = [t |-> alone.t, err |-> alone.err,
                                  line |-> alone.line]

\* both calls hold a buffer with the digest of one of their nodes in it
C24_Witness ==
    /\ calls[1].at = "hashed"
    /\ calls[2].at = "hashed"
    /\ calls[1].proof # calls[2].proof
    /\ calls[1].buffer # calls[2].buffer
    /\ buffers[calls[1].buffer] # buffers[calls[2].buffer]

\* C25 - LoadProof terminates for every finite index and every starting
\* node: the call returns after finitely many decodes, also when an indexed
\* encoding holds a hash reference to a key of the index that is on the path
\* to it.
C25_LoadProofTerminates == <>(pc = "returned")

====
